---- MODULE Spec2Model ----
(***************************************************************************)
(* A model of src/python.py, the "safe calculator": safe_eval parses an    *)
(* expression with ast.parse, validates the tree with the NodeVisitor      *)
(* SafeEvaluator against a name table, and only then compiles and          *)
(* evaluates it; main forwards -e/--expr to safe_eval or enters the REPL.  *)
(*                                                                         *)
(* Python values are modelled as follows.                                  *)
(*  - An AST node is a record with a "kind" field holding the class name   *)
(*    of the node (node.__class__.__name__) and the fields of that class.  *)
(*    Operator classes (ast.Add, ...) and the expression context           *)
(*    (ast.Load) are carried as the string naming the class.               *)
(*  - The value of an ast.Constant is carried as the name of its Python    *)
(*    type ("type") and its literal text ("repr").                         *)
(*  - A str is one of the forms ast.parse distinguishes: the empty string, *)
(*    text that is not an expression, and text that is the source of a     *)
(*    tree (carried as that tree).  Python >= 3.8 is assumed: ast.parse    *)
(*    yields ast.Constant for every literal, never ast.Num.                *)
(*  - A raised exception is a record naming the exception class, the       *)
(*    message format and the formatted argument.                           *)
(***************************************************************************)
EXTENDS Integers, Sequences, FiniteSets, TLC

(***************************************************************************)
(* Bounds of the model                                                     *)
(***************************************************************************)
\* how many times a context (operand position, call argument) is wrapped
\* around a basic expression when the inputs are enumerated
MaxWrap == 1
\* how many lines the REPL reads before the terminal is closed
MaxLines == 3

(***************************************************************************)
(* AST nodes (the classes of the ast module the program meets)             *)
(***************************************************************************)
Constant(type, repr) == [kind |-> "Constant", type |-> type, repr |-> repr]
Name(id) == [kind |-> "Name", id |-> id, ctx |-> "Load"]
BinOp(left, op, right) == [kind |-> "BinOp", left |-> left, op |-> op, right |-> right]
UnaryOp(op, operand) == [kind |-> "UnaryOp", op |-> op, operand |-> operand]
keyword(arg, value) == [kind |-> "keyword", arg |-> arg, value |-> value]
Call(func, args, keywords) == [kind |-> "Call", func |-> func, args |-> args, keywords |-> keywords]
Expression(body) == [kind |-> "Expression", body |-> body]
Attribute(value, attr) == [kind |-> "Attribute", value |-> value, attr |-> attr, ctx |-> "Load"]
Subscript(value, slice) == [kind |-> "Subscript", value |-> value, slice |-> slice, ctx |-> "Load"]
List(elts) == [kind |-> "List", elts |-> elts, ctx |-> "Load"]
Tuple(elts) == [kind |-> "Tuple", elts |-> elts, ctx |-> "Load"]
IfExp(test, body, orelse) == [kind |-> "IfExp", test |-> test, body |-> body, orelse |-> orelse]
Lambda(body) == [kind |-> "Lambda", body |-> body]
Compare(left, op, right) == [kind |-> "Compare", left |-> left, ops |-> <<op>>, comparators |-> <<right>>]
BoolOp(op, values) == [kind |-> "BoolOp", op |-> op, values |-> values]
Starred(value) == [kind |-> "Starred", value |-> value, ctx |-> "Load"]
NamedExpr(target, value) == [kind |-> "NamedExpr", target |-> target, value |-> value]

\* the binary and unary operator classes of the Python grammar
BinaryOperators ==
    {"Add", "Sub", "Mult", "Div", "Mod", "Pow", "FloorDiv",
     "MatMult", "LShift", "RShift", "BitOr", "BitXor", "BitAnd"}
UnaryOperators == {"UAdd", "USub", "Not", "Invert"}

\* isinstance(value, classes): the classes a value of the given type is an
\* instance of (bool is a subclass of int)
TypeMro(type) == IF type = "bool" THEN {"bool", "int", "object"} ELSE {type, "object"}
isinstance(type, classes) == TypeMro(type) \cap classes # {}

(***************************************************************************)
(* Exceptions and the result of a call that may raise                      *)
(***************************************************************************)
NoError == [type |-> "", msg |-> "", arg |-> ""]
Exc(type, msg, arg) == [type |-> type, msg |-> msg, arg |-> arg]
ValueError(msg, arg) == Exc("ValueError", msg, arg)

\* the outcome of a visitor method: returned normally or raised `error`;
\* `trace` lists the nodes `visit` was called on, in call order
Returned == [ok |-> TRUE, error |-> NoError, trace |-> <<>>]
Raised(error) == [ok |-> FALSE, error |-> error, trace |-> <<>>]
\* statement sequencing: `second` runs only when `first` returned
AndThen(first, second) ==
    IF first.ok THEN [second EXCEPT !.trace = first.trace \o second.trace] ELSE first

(***************************************************************************)
(* class SafeEvaluator(ast.NodeVisitor)                                    *)
(***************************************************************************)
\* the tuple with ast.BitXor in it: "^" taken for the power operator
ALLOWED_BINOPS_with_xor == {"Add", "Sub", "Mult", "Div", "Mod", "Pow", "FloorDiv", "BitXor"}
ALLOWED_BINOPS == {"Add", "Sub", "Mult", "Div", "Mod", "Pow", "FloorDiv"}
ALLOWED_UNARYOPS == {"UAdd", "USub"}

\* SafeEvaluator(names): the instance holds a reference to the caller's table
SafeEvaluator(names) == [names |-> names]

RECURSIVE visit(_, _)
RECURSIVE visit_each(_, _, _)

\* `for child in children: self.visit(child)` from position i on; the loop
\* of visit_Call over node.args and of NodeVisitor.generic_visit
visit_each(self, children, i) ==
    IF i > Len(children) THEN Returned
    ELSE AndThen(visit(self, children[i]), visit_each(self, children, i + 1))

visit_Expression(self, node) == visit(self, node.body)

\* visit_BinOp visiting the right operand before the left one
visit_BinOp_right_first(self, node) ==
    IF ~(node.op \in ALLOWED_BINOPS)
    THEN Raised(ValueError("Operator {} not allowed", node.op))
    ELSE AndThen(visit(self, node.right), visit(self, node.left))

visit_BinOp(self, node) ==
    IF ~(node.op \in ALLOWED_BINOPS)
    THEN Raised(ValueError("Operator {} not allowed", node.op))
    ELSE AndThen(visit(self, node.left), visit(self, node.right))

visit_UnaryOp(self, node) ==
    IF ~(node.op \in ALLOWED_UNARYOPS)
    THEN Raised(ValueError("Unary operator {} not allowed", node.op))
    ELSE visit(self, node.operand)

\* visit_Call without the test of the callee against the table
visit_Call_any_function(self, node) ==
    IF ~(node.func.kind = "Name")
    THEN Raised(ValueError("Only direct function calls are allowed", ""))
    ELSE IF node.keywords # <<>>
    THEN Raised(ValueError("Keyword arguments are not allowed", ""))
    ELSE visit_each(self, node.args, 1)

\* visit_Call without the test of node.keywords
visit_Call_any_keywords(self, node) ==
    IF ~(node.func.kind = "Name")
    THEN Raised(ValueError("Only direct function calls are allowed", ""))
    ELSE IF ~(node.func.id \in DOMAIN self.names)
    THEN Raised(ValueError("Function '{}' is not allowed", node.func.id))
    ELSE visit_each(self, node.args, 1)

visit_Call(self, node) ==
    IF ~(node.func.kind = "Name")
    THEN Raised(ValueError("Only direct function calls are allowed", ""))
    ELSE IF ~(node.func.id \in DOMAIN self.names)
    THEN Raised(ValueError("Function '{}' is not allowed", node.func.id))
    ELSE IF node.keywords # <<>>
    THEN Raised(ValueError("Keyword arguments are not allowed", ""))
    ELSE visit_each(self, node.args, 1)

visit_Name(self, node) ==
    IF ~(node.id \in DOMAIN self.names)
    THEN Raised(ValueError("Name '{}' is not allowed", node.id))
    ELSE Returned

visit_Constant(self, node) ==
    IF ~isinstance(node.type, {"int", "float", "complex"})
    THEN Raised(ValueError("Only numeric constants are allowed", ""))
    ELSE Returned

visit_Num(self, node) == Returned

visit_Attribute(self, node) == Raised(ValueError("Attribute access is not allowed", ""))

\* ast.iter_child_nodes(node): the AST-valued fields of a node, in field
\* order (operator and context objects have no fields of their own and are
\* left out: visiting one returns at once)
iter_child_nodes(node) ==
    CASE node.kind = "Expression" -> <<node.body>>
      [] node.kind = "BinOp" -> <<node.left, node.right>>
      [] node.kind = "UnaryOp" -> <<node.operand>>
      [] node.kind = "Call" -> <<node.func>> \o node.args \o node.keywords
      [] node.kind = "keyword" -> <<node.value>>
      [] node.kind \in {"Attribute", "Starred"} -> <<node.value>>
      [] node.kind = "Subscript" -> <<node.value, node.slice>>
      [] node.kind \in {"List", "Tuple"} -> node.elts
      [] node.kind = "IfExp" -> <<node.test, node.body, node.orelse>>
      [] node.kind = "Lambda" -> <<node.body>>
      [] node.kind = "Compare" -> <<node.left>> \o node.comparators
      [] node.kind = "BoolOp" -> node.values
      [] node.kind = "NamedExpr" -> <<node.target, node.value>>
      [] OTHER -> <<>>

\* ast.NodeVisitor.generic_visit, reached through super()
NodeVisitor_generic_visit(self, node) == visit_each(self, iter_child_nodes(node), 1)

\* generic_visit as NodeVisitor defines it: no node type is rejected
generic_visit_inherited(self, node) == NodeVisitor_generic_visit(self, node)

generic_visit(self, node) ==
    LET allowed == {"Expression", "BinOp", "UnaryOp", "Call", "Name", "Load", "Constant", "Num"}
    IN  IF node.kind \in allowed
        THEN NodeVisitor_generic_visit(self, node)
        ELSE Raised(ValueError("Node type {} not allowed", node.kind))

\* method = 'visit_' + node.__class__.__name__;
\* getattr(self, method, self.generic_visit)(node)
visit(self, node) ==
    LET visitor ==
          CASE node.kind = "Expression" -> visit_Expression(self, node)
            [] node.kind = "BinOp" -> visit_BinOp(self, node)
            [] node.kind = "UnaryOp" -> visit_UnaryOp(self, node)
            [] node.kind = "Call" -> visit_Call(self, node)
            [] node.kind = "Name" -> visit_Name(self, node)
            [] node.kind = "Constant" -> visit_Constant(self, node)
            [] node.kind = "Num" -> visit_Num(self, node)
            [] node.kind = "Attribute" -> visit_Attribute(self, node)
            [] OTHER -> generic_visit(self, node)
    IN  [visitor EXCEPT !.trace = <<node>> \o @]

(***************************************************************************)
(* Python objects at run time, and the builtin eval                        *)
(*                                                                         *)
(* An int or bool carries its value.  A float or complex carries its type  *)
(* and origin only; where the outcome of an operation would depend on the  *)
(* magnitude of such a value the evaluation is marked "Unmodelled", and    *)
(* Modelled below states that no reachable evaluation is.                  *)
(***************************************************************************)
NoValue == [t |-> "", n |-> 0, f |-> ""]
NoneV == [t |-> "NoneType", n |-> 0, f |-> "None"]
IntV(n) == [t |-> "int", n |-> n, f |-> ""]
BoolV(n) == [t |-> "bool", n |-> n, f |-> ""]
FloatV(f) == [t |-> "float", n |-> 0, f |-> f]
ComplexV(f) == [t |-> "complex", n |-> 0, f |-> f]
FunctionV(f) == [t |-> "builtin_function_or_method", n |-> 0, f |-> f]
StrV(f) == [t |-> "str", n |-> 0, f |-> f]

IsInt(v) == v.t \in {"int", "bool"}
IsReal(v) == v.t \in {"int", "bool", "float"}
IsNumber(v) == v.t \in {"int", "bool", "float", "complex"}

Value(v) == [ok |-> TRUE, value |-> v, error |-> NoError]
Throw(type, msg) == [ok |-> FALSE, value |-> NoValue, error |-> Exc(type, msg, "")]
Unmodelled == Throw("Unmodelled", "")

\* int arithmetic: // rounds to minus infinity, % takes the divisor's sign
PyFloorDiv(a, b) == IF b > 0 THEN a \div b ELSE (-a) \div (-b)
PyMod(a, b) == IF b > 0 THEN a % b ELSE -((-a) % (-b))
RECURSIVE PyPow(_, _)
PyPow(a, b) == IF b = 0 THEN 1 ELSE a * PyPow(a, b - 1)
Abs(n) == IF n < 0 THEN -n ELSE n

\* the value of a literal from its text
literal_eval(type, repr) ==
    CASE type = "int" -> IntV(CASE repr = "0" -> 0 [] repr = "1" -> 1 [] repr = "2" -> 2)
      [] type = "bool" -> BoolV(IF repr = "True" THEN 1 ELSE 0)
      [] type = "float" -> FloatV(repr)
      [] type = "complex" -> ComplexV(repr)
      [] type = "NoneType" -> NoneV
      [] OTHER -> [t |-> type, n |-> 0, f |-> repr]

\* number.__pos__ / number.__neg__
unary_op(op, v) ==
    IF ~IsNumber(v) THEN Throw("TypeError", "bad operand type for unary op")
    ELSE IF IsInt(v) THEN Value(IntV(IF op = "USub" THEN -v.n ELSE v.n))
    ELSE Value([v EXCEPT !.f = "computed"])

\* the binary arithmetic of int, bool, float and complex
binary_op(op, l, r) ==
    LET zerodiv == Throw("ZeroDivisionError", "division by zero")
        joined == IF "complex" \in {l.t, r.t} THEN ComplexV("computed") ELSE FloatV("computed")
    IN  IF ~IsNumber(l) \/ ~IsNumber(r)
        THEN Throw("TypeError", "unsupported operand type(s)")
        ELSE IF op \in {"FloorDiv", "Mod"} /\ "complex" \in {l.t, r.t}
        THEN Throw("TypeError", "unsupported operand type(s)")
        ELSE IF IsInt(l) /\ IsInt(r)
        THEN CASE op = "Add" -> Value(IntV(l.n + r.n))
               [] op = "Sub" -> Value(IntV(l.n - r.n))
               [] op = "Mult" -> Value(IntV(l.n * r.n))
               [] op = "Div" -> IF r.n = 0 THEN zerodiv ELSE Value(FloatV("computed"))
               [] op = "FloorDiv" -> IF r.n = 0 THEN zerodiv ELSE Value(IntV(PyFloorDiv(l.n, r.n)))
               [] op = "Mod" -> IF r.n = 0 THEN zerodiv ELSE Value(IntV(PyMod(l.n, r.n)))
               [] op = "Pow" -> IF r.n >= 0 THEN Value(IntV(PyPow(l.n, r.n)))
                                ELSE IF l.n = 0 THEN zerodiv ELSE Value(FloatV("computed"))
               [] OTHER -> Unmodelled
        ELSE CASE op \in {"Add", "Sub", "Mult"} -> Value(joined)
               [] op \in {"Div", "FloorDiv", "Mod"} ->
                    IF ~IsInt(r) THEN Unmodelled
                    ELSE IF r.n = 0 THEN zerodiv ELSE Value(joined)
               [] op = "Pow" ->
                    IF IsInt(r) THEN (IF r.n >= 0 THEN Value(joined) ELSE Unmodelled)
                    ELSE IF IsInt(l) /\ l.n = 0 /\ r.t = "complex" THEN zerodiv
                    ELSE IF IsInt(l) /\ l.n > 0 THEN Value(joined)
                    ELSE Unmodelled
               [] OTHER -> Unmodelled

\* calling the object `func` with the positional arguments `args`
call_function(func, args) ==
    LET n == Len(args)
        arity == Throw("TypeError", "wrong number of arguments")
        badarg == Throw("TypeError", "bad argument type")
    IN  IF func.t # "builtin_function_or_method"
        THEN Throw("TypeError", "object is not callable")
        ELSE CASE func.f = "abs" ->
                    IF n # 1 THEN arity
                    ELSE IF ~IsNumber(args[1]) THEN badarg
                    ELSE IF IsInt(args[1]) THEN Value(IntV(Abs(args[1].n)))
                    ELSE Value(FloatV("computed"))
               [] func.f = "round" ->
                    IF n \notin {1, 2} THEN arity
                    ELSE IF ~IsReal(args[1]) THEN badarg
                    ELSE IF n = 2 /\ ~IsInt(args[2]) THEN badarg
                    ELSE IF IsInt(args[1])
                    THEN (IF n = 2 /\ args[2].n < 0 THEN Unmodelled ELSE Value(IntV(args[1].n)))
                    ELSE (IF n = 2 THEN Value(FloatV("computed")) ELSE Unmodelled)
               [] func.f \in {"min", "max"} ->
                    IF n = 0 THEN arity
                    ELSE IF n = 1 THEN Throw("TypeError", "object is not iterable")
                    ELSE IF \E i \in 1..n : ~IsReal(args[i]) THEN badarg
                    ELSE IF \E i \in 1..n : ~IsInt(args[i]) THEN Unmodelled
                    ELSE LET better(a, b) == IF func.f = "max" THEN a > b ELSE a < b
                             \* the first argument no other argument beats
                             i == CHOOSE i \in 1..n :
                                    /\ \A j \in 1..n : ~better(args[j].n, args[i].n)
                                    /\ \A j \in 1..(i - 1) : args[j].n # args[i].n
                         IN  Value(args[i])
               [] func.f = "sqrt" ->
                    IF n # 1 THEN arity
                    ELSE IF ~IsReal(args[1]) THEN badarg
                    ELSE IF ~IsInt(args[1]) THEN Unmodelled
                    ELSE IF args[1].n < 0 THEN Throw("ValueError", "math domain error")
                    ELSE Value(FloatV("computed"))
               [] OTHER -> Unmodelled

\* the evaluation of an expression node with the given globals and locals:
\* operands and arguments left to right, the first exception propagates
RECURSIVE eval_node(_, _, _)
RECURSIVE eval_args(_, _, _, _, _)
eval_args(args, i, done, globals, locals) ==
    IF i > Len(args) THEN [ok |-> TRUE, values |-> done, error |-> NoError]
    ELSE LET a == eval_node(args[i], globals, locals)
         IN  IF a.ok THEN eval_args(args, i + 1, Append(done, a.value), globals, locals)
             ELSE [ok |-> FALSE, values |-> <<>>, error |-> a.error]

eval_node(node, globals, locals) ==
    CASE node.kind = "Constant" -> Value(literal_eval(node.type, node.repr))
      [] node.kind = "Name" ->
            IF node.id \in DOMAIN locals THEN Value(locals[node.id])
            ELSE IF node.id \in DOMAIN globals THEN Value(globals[node.id])
            ELSE IF globals["__builtins__"].t = "NoneType"
            THEN Throw("TypeError", "'NoneType' object is not subscriptable")
            ELSE Unmodelled
      [] node.kind = "UnaryOp" ->
            LET v == eval_node(node.operand, globals, locals)
            IN  IF ~v.ok THEN v
                ELSE IF node.op \in {"UAdd", "USub"} THEN unary_op(node.op, v.value)
                ELSE Unmodelled
      [] node.kind = "BinOp" ->
            LET l == eval_node(node.left, globals, locals)
            IN  IF ~l.ok THEN l
                ELSE LET r == eval_node(node.right, globals, locals)
                     IN  IF ~r.ok THEN r ELSE binary_op(node.op, l.value, r.value)
      [] node.kind = "Call" ->
            LET f == eval_node(node.func, globals, locals)
            IN  IF ~f.ok THEN f
                ELSE IF node.keywords # <<>> THEN Unmodelled
                ELSE LET a == eval_args(node.args, 1, <<>>, globals, locals)
                     IN  IF ~a.ok THEN [ok |-> FALSE, value |-> NoValue, error |-> a.error]
                         ELSE call_function(f.value, a.values)
      [] OTHER -> Unmodelled

\* dict.update and dict item assignment
Update(d, other) ==
    [k \in DOMAIN d \cup DOMAIN other |-> IF k \in DOMAIN other THEN other[k] ELSE d[k]]

\* eval(code, globals, locals): the value or the exception, and the two
\* dictionaries as eval leaves them; eval inserts "__builtins__" into a
\* globals dictionary that lacks the key
eval(code, globals, locals) ==
    LET g == IF "__builtins__" \in DOMAIN globals THEN globals
             ELSE Update(globals, [k \in {"__builtins__"} |-> [t |-> "module", n |-> 0, f |-> "builtins"]])
    IN  [outcome |-> eval_node(code.body, g, locals), globals |-> g, locals |-> locals]

(***************************************************************************)
(* build_safe_names                                                        *)
(***************************************************************************)
\* dir(math), of which the model keeps two public and two private names
math_dir == {"__doc__", "__name__", "pi", "sqrt"}
math_getattr(k) ==
    CASE k = "pi" -> FloatV("pi")
      [] k = "sqrt" -> FunctionV("sqrt")
      [] OTHER -> StrV(k)
\* k.startswith("_") for the identifiers of the model
startswith_underscore(k) == k \in {"__doc__", "__name__", "__builtins__", "__import__"}

build_safe_names ==
    LET names == [k \in {k \in math_dir : ~startswith_underscore(k)} |-> math_getattr(k)]
    IN  Update(names, [k \in {"abs", "round", "min", "max"} |-> FunctionV(k)])

(***************************************************************************)
(* Strings and ast.parse                                                   *)
(***************************************************************************)
NoNode == [kind |-> "None"]
\* None where a str is expected (args.expr without -e)
NoStr == [form |-> "None", tree |-> NoNode]
EmptyStr == [form |-> "empty", tree |-> NoNode]
\* white space only
BlankStr == [form |-> "blank", tree |-> NoNode]
\* text that is not one expression ("1 +", "x = 1", "import os")
InvalidStr == [form |-> "invalid", tree |-> NoNode]
\* the source text of the expression `tree`
Source(tree) == [form |-> "source", tree |-> tree]

\* bool(s) of an Optional[str]: None and "" are false
truthy(s) == s.form \notin {"None", "empty"}
\* s.strip(): white space only becomes the empty string
strip(s) == IF s.form = "blank" THEN EmptyStr ELSE s
\* s.lower() for the identifiers of the model
lower(id) == CASE id = "QUIT" -> "quit" [] id = "Exit" -> "exit" [] OTHER -> id
\* s.lower() in ('quit', 'exit')
is_quit(s) ==
    /\ s.form = "source"
    /\ s.tree.kind = "Name"
    /\ lower(s.tree.id) \in {"quit", "exit"}

\* ast.parse(expression, mode='eval')
ast_parse(expression) ==
    IF expression.form = "source"
    THEN [ok |-> TRUE, tree |-> Expression(expression.tree), error |-> NoError]
    ELSE [ok |-> FALSE, tree |-> NoNode, error |-> Exc("SyntaxError", "invalid syntax", "")]

(***************************************************************************)
(* The inputs the model enumerates                                         *)
(***************************************************************************)
Int0 == Constant("int", "0")
Int1 == Constant("int", "1")
Int2 == Constant("int", "2")
StrS == Constant("str", "'s'")

NumericLiterals == {Int1, Int0, Constant("float", "1.5"), Constant("complex", "2j")}
OtherLiterals ==
    {StrS, Constant("bool", "True"), Constant("bool", "False"), Constant("NoneType", "None"),
     Constant("bytes", "b'x'"), Constant("ellipsis", "...")}
NameNodes == {Name("pi"), Name("abs"), Name("x"), Name("__builtins__")}
\* one expression of each other kind of the grammar
OtherNodes ==
    {Attribute(Int1, "__class__"), Subscript(Name("x"), Int0), List(<<Int1, Int2>>),
     Tuple(<<Int1, Int2>>), IfExp(Constant("bool", "True"), Int1, Int2), Lambda(Name("x")),
     Compare(Int1, "Lt", Int2), BoolOp("And", <<Int1, Int2>>), NamedExpr(Name("x"), Int1)}
Atoms == NumericLiterals \cup OtherLiterals \cup NameNodes \cup OtherNodes

Operands == {Int1, Int0, StrS, Name("x")}
Callees ==
    {Name("abs"), Name("max"), Name("round"), Name("f"), Name("pi"),
     Attribute(Name("os"), "system"), Call(Name("abs"), <<Int1>>, <<>>),
     Subscript(Name("x"), Int0)}
Arguments == {Int1, StrS, Name("x")}
ArgumentLists ==
    {<<>>, <<Starred(Name("x"))>>} \cup {<<a>> : a \in Arguments}
      \cup {<<a, b>> : a, b \in Arguments}
KeywordLists == {<<>>, <<keyword("ndigits", Int2)>>}

\* every expression with at most one operator or call over the atoms
Basic ==
    Atoms
      \cup {UnaryOp(op, a) : op \in UnaryOperators, a \in Atoms}
      \cup {BinOp(l, op, r) : l \in Operands, op \in BinaryOperators, r \in Operands}
      \cup {Call(f, args, kw) : f \in Callees, args \in ArgumentLists, kw \in KeywordLists}

\* the positions a subexpression can take in a certified tree
Contexts(t) ==
    {UnaryOp("USub", t), BinOp(t, "Add", Int1), BinOp(Int1, "Sub", t),
     Call(Name("abs"), <<t>>, <<>>), Call(Name("round"), <<t, Int1>>, <<>>)}

RECURSIVE Wrapped(_)
Wrapped(k) ==
    IF k = 0 THEN Basic
    ELSE LET inner == Wrapped(k - 1) IN inner \cup UNION {Contexts(t) : t \in inner}

Expressions == {EmptyStr, BlankStr, InvalidStr} \cup {Source(t) : t \in Wrapped(MaxWrap)}

\* a caller's own table, besides the one build_safe_names builds
CustomNames ==
    [k \in {"x", "f", "abs", "round"} |->
        CASE k = "x" -> IntV(2) [] k = "f" -> FunctionV("max") [] OTHER -> FunctionV(k)]
NameTables == {build_safe_names, CustomNames}

\* what a user types at the calc> prompt
Lines ==
    {EmptyStr, BlankStr, InvalidStr, Source(Name("quit")), Source(Name("Exit")),
     Source(Name("_")), Source(Name("pi")), Source(Name("__builtins__")),
     Source(Constant("bool", "True")), Source(StrS),
     Source(BinOp(Int1, "Add", Int1)), Source(BinOp(Int1, "Div", Int0)),
     Source(BinOp(Int1, "MatMult", Int1)),
     Source(Call(Name("max"), <<Int1, Int2>>, <<>>)),
     Source(Call(Name("round"), <<Int1>>, <<keyword("ndigits", Int2)>>)),
     Source(Attribute(Name("os"), "system"))}

(***************************************************************************)
(* The program state                                                       *)
(***************************************************************************)
VARIABLES
    pc,          \* the line the program is at
    args,        \* main: args.expr
    names,       \* the name table (one dict, shared by reference)
    caller,      \* who called safe_eval: "main", "repl" or "api"
    expression,  \* safe_eval: the parameter `expression`
    tree,        \* safe_eval: the local `tree`
    validator,   \* safe_eval: the SafeEvaluator instance
    code,        \* safe_eval: the local `code`
    result,      \* how the last safe_eval call ended: a value or an exception
    status,      \* what main returned (-1: it has not returned)
    lines_read,  \* repl: how many lines input() has returned
    \* history, for the properties
    visited,     \* what SafeEvaluator(names).visit(tree) returned, and its trace
    evaluated,   \* the eval call of the current safe_eval call
    raised_at,   \* the stage at which the current safe_eval call raised
    calls,       \* the number of safe_eval calls so far
    repl_entered,\* whether repl(names) has been called
    names0,      \* the name table as the caller built it
    first        \* an earlier safe_eval call: its arguments and its outcome

vars ==
    <<pc, args, names, caller, expression, tree, validator, code, result, status,
      lines_read, visited, evaluated, raised_at, calls, repl_entered, names0, first>>

EmptyDict == [k \in {} |-> NoValue]
NoObject == [names |-> EmptyDict]
Pending == [ok |-> FALSE, value |-> NoValue, error |-> Exc("", "pending", "")]
NotVisited == [ok |-> FALSE, error |-> NoError, trace |-> <<>>]
NotEvaluated == [called |-> FALSE, code |-> NoNode, locals |-> EmptyDict]
NoCall == [set |-> FALSE, expression |-> NoStr, names |-> EmptyDict, result |-> Pending]

\* the locals of safe_eval and the history of one call, before the call
FreshCall ==
    /\ tree' = NoNode
    /\ validator' = NoObject
    /\ code' = NoNode
    /\ result' = Pending
    /\ visited' = NotVisited
    /\ evaluated' = NotEvaluated
    /\ raised_at' = ""

\* safe_eval(e, names) is called from `from`
CallSafeEval(e, from) ==
    /\ expression' = e
    /\ caller' = from
    /\ calls' = calls + 1
    /\ pc' = "safe_eval_112"
    /\ FreshCall

(***************************************************************************)
(* safe_eval, line by line                                                 *)
(***************************************************************************)
\* an exception leaves safe_eval from `stage`
SafeEvalRaises(error, stage) ==
    /\ result' = [ok |-> FALSE, value |-> NoValue, error |-> error]
    /\ raised_at' = stage
    /\ pc' = "safe_eval_return"

\* line 112: tree = ast.parse(expression, mode='eval')
SafeEvalParse ==
    /\ pc = "safe_eval_112"
    /\ LET parsed == ast_parse(expression)
       IN  IF parsed.ok
           THEN /\ tree' = parsed.tree
                /\ pc' = "safe_eval_113"
                /\ UNCHANGED <<result, raised_at>>
           ELSE /\ SafeEvalRaises(parsed.error, "parse")
                /\ UNCHANGED tree
    /\ UNCHANGED <<args, names, caller, expression, validator, code, status, lines_read,
                   visited, evaluated, calls, repl_entered, names0, first>>

\* line 113 with the exception of visit swallowed
SafeEvalVisit_unchecked ==
    /\ pc = "safe_eval_113"
    /\ validator' = SafeEvaluator(names)
    /\ visited' = visit(validator', tree)
    /\ pc' = "safe_eval_114"
    /\ UNCHANGED <<args, names, caller, expression, tree, code, result, status, lines_read,
                   evaluated, raised_at, calls, repl_entered, names0, first>>

\* line 113: SafeEvaluator(names).visit(tree)
SafeEvalVisit ==
    /\ pc = "safe_eval_113"
    /\ validator' = SafeEvaluator(names)
    /\ visited' = visit(validator', tree)
    /\ IF visited'.ok
       THEN /\ pc' = "safe_eval_114"
            /\ UNCHANGED <<result, raised_at>>
       ELSE SafeEvalRaises(visited'.error, "visit")
    /\ UNCHANGED <<args, names, caller, expression, tree, code, status, lines_read,
                   evaluated, calls, repl_entered, names0, first>>

\* line 114: code = compile(tree, '<expr>', 'eval')
SafeEvalCompile ==
    /\ pc = "safe_eval_114"
    /\ code' = tree
    /\ pc' = "safe_eval_115"
    /\ UNCHANGED <<args, names, caller, expression, tree, validator, result, status,
                   lines_read, visited, evaluated, raised_at, calls, repl_entered,
                   names0, first>>

\* eval(code, names): the table passed as the globals, and so as the locals
safe_eval_115_names_as_globals(c, table) ==
    LET r == eval(c, table, table)
    IN  [outcome |-> r.outcome, table |-> r.globals]

\* the call eval makes at line 115: fresh globals, the table as locals;
\* `table` is the table as the call leaves it
safe_eval_115(c, table) ==
    LET r == eval(c, [k \in {"__builtins__"} |-> NoneV], table)
    IN  [outcome |-> r.outcome, table |-> r.locals]

\* line 115: return eval(code, {'__builtins__': None}, names)
SafeEvalEval ==
    /\ pc = "safe_eval_115"
    /\ LET r == safe_eval_115(code, names)
       IN  /\ evaluated' = [called |-> TRUE, code |-> code, locals |-> names]
           /\ names' = r.table
           /\ result' = r.outcome
           /\ raised_at' = IF r.outcome.ok THEN "" ELSE "eval"
    /\ pc' = "safe_eval_return"
    /\ UNCHANGED <<args, caller, expression, tree, validator, code, status, lines_read,
                   visited, calls, repl_entered, names0, first>>

(***************************************************************************)
(* main and repl                                                           *)
(***************************************************************************)
\* lines 143-152 and 160: args are parsed, the table is built, and main
\* either calls safe_eval(args.expr, names) or repl(names)
Main ==
    /\ pc = "main"
    /\ names' = build_safe_names
    /\ names0' = build_safe_names
    /\ IF truthy(args)
       THEN /\ CallSafeEval(args, "main")
            /\ UNCHANGED repl_entered
       ELSE /\ pc' = "repl_127"
            /\ repl_entered' = TRUE
            /\ UNCHANGED <<caller, expression, tree, validator, code, result, visited,
                           evaluated, raised_at, calls>>
    /\ UNCHANGED <<args, status, lines_read, first>>

\* lines 153-158: main prints the value and returns 0, or prints the error
\* and returns 2
MainReturn ==
    /\ pc = "safe_eval_return"
    /\ caller = "main"
    /\ status' = IF result.ok THEN 0 ELSE 2
    /\ pc' = "exit"
    /\ UNCHANGED <<args, names, caller, expression, tree, validator, code, result,
                   lines_read, visited, evaluated, raised_at, calls, repl_entered,
                   names0, first>>

\* lines 125-136: one turn of the loop of repl up to the call of safe_eval;
\* input() raises EOFError or KeyboardInterrupt when the terminal closes,
\* and then, or on quit or exit, repl returns and main returns 0 (line 161)
ReplInput ==
    /\ pc = "repl_127"
    /\ \E typed \in Lines \cup {NoStr} :
         LET eof == typed = NoStr \/ lines_read >= MaxLines
             line == strip(typed)
         IN  IF eof \/ (truthy(line) /\ is_quit(line))
             THEN /\ status' = 0
                  /\ pc' = "exit"
                  /\ UNCHANGED <<caller, expression, tree, validator, code, result,
                                 lines_read, visited, evaluated, raised_at, calls>>
             ELSE IF ~truthy(line)
             THEN /\ lines_read' = lines_read + 1
                  /\ UNCHANGED <<pc, caller, expression, tree, validator, code, result,
                                 status, visited, evaluated, raised_at, calls>>
             ELSE /\ lines_read' = lines_read + 1
                  /\ CallSafeEval(line, "repl")
                  /\ UNCHANGED status
    /\ UNCHANGED <<args, names, repl_entered, names0, first>>

\* repl binding the last result to "_" in the table, as the Python prompt does
ReplPrint_underscore ==
    /\ pc = "safe_eval_return"
    /\ caller = "repl"
    /\ pc' = "repl_127"
    /\ names' = IF result.ok THEN Update(names, [k \in {"_"} |-> result.value]) ELSE names
    /\ \E remember \in BOOLEAN :
         first' = IF remember /\ ~first.set
                  THEN [set |-> TRUE, expression |-> expression, names |-> names0,
                        result |-> result]
                  ELSE first
    /\ UNCHANGED <<args, caller, expression, tree, validator, code, result,
                   status, lines_read, visited, evaluated, raised_at, calls,
                   repl_entered, names0>>

\* lines 137-140: repl prints the error or the result and loops
ReplPrint ==
    /\ pc = "safe_eval_return"
    /\ caller = "repl"
    /\ pc' = "repl_127"
    /\ \E remember \in BOOLEAN :
         first' = IF remember /\ ~first.set
                  THEN [set |-> TRUE, expression |-> expression, names |-> names0,
                        result |-> result]
                  ELSE first
    /\ UNCHANGED <<args, names, caller, expression, tree, validator, code, result,
                   status, lines_read, visited, evaluated, raised_at, calls,
                   repl_entered, names0>>

(***************************************************************************)
(* Specifications                                                          *)
(***************************************************************************)
NoCallYet ==
    /\ caller = ""
    /\ expression = NoStr
    /\ tree = NoNode
    /\ validator = NoObject
    /\ code = NoNode
    /\ result = Pending
    /\ visited = NotVisited
    /\ evaluated = NotEvaluated
    /\ raised_at = ""
    /\ first = NoCall

\* the program: python python.py [-e EXPR]
Init ==
    /\ pc = "main"
    /\ args \in {NoStr} \cup Expressions
    /\ names = EmptyDict
    /\ names0 = EmptyDict
    /\ status = -1
    /\ lines_read = 0
    /\ calls = 0
    /\ repl_entered = FALSE
    /\ NoCallYet

Next == Main \/ MainReturn \/ ReplInput \/ ReplPrint
          \/ SafeEvalParse \/ SafeEvalVisit \/ SafeEvalCompile \/ SafeEvalEval

Spec == Init /\ [][Next]_vars

\* one call safe_eval(expression, names) by a caller with its own table
InitEval ==
    /\ pc = "safe_eval_112"
    /\ args = NoStr
    /\ names \in NameTables
    /\ names0 = names
    /\ status = -1
    /\ lines_read = 0
    /\ calls = 1
    /\ repl_entered = FALSE
    /\ caller = "api"
    /\ expression \in Expressions
    /\ tree = NoNode
    /\ validator = NoObject
    /\ code = NoNode
    /\ result = Pending
    /\ visited = NotVisited
    /\ evaluated = NotEvaluated
    /\ raised_at = ""
    /\ first = NoCall

NextEval == SafeEvalParse \/ SafeEvalVisit \/ SafeEvalCompile \/ SafeEvalEval

SpecEval == InitEval /\ [][NextEval]_vars

\* every evaluation of the model is within what the model of eval covers
Modelled == result.error.type # "Unmodelled"

(***************************************************************************)
(* The properties                                                          *)
(***************************************************************************)
\* every node of a tree, at any depth
RECURSIVE Nodes(_)
Nodes(node) ==
    LET children == iter_child_nodes(node)
    IN  {node} \cup UNION {Nodes(children[i]) : i \in DOMAIN children}

\* SafeEvaluator(names).visit(tree) has been called in the current call
Validated == visited.trace # <<>>
\* ... and returned without raising, on the whole tree ast.parse returned
Certified ==
    /\ Validated
    /\ visited.ok
    /\ visited.trace[1] = tree
    /\ tree = ast_parse(expression).tree
\* ... or raised
Rejected == Validated /\ ~visited.ok /\ raised_at = "visit" /\ result.error = visited.error

\* C1: in every call of safe_eval the compile and eval steps are reached
\* only after visit returned without raising on the whole parsed tree, eval
\* is given that tree and the table the validator checked it against, and a
\* call that failed at the parse or validation stage has evaluated nothing.
C1_ValidateThenEvaluate ==
    /\ pc \in {"safe_eval_114", "safe_eval_115"} => Certified
    /\ evaluated.called =>
         /\ Certified
         /\ evaluated.code = tree
         /\ evaluated.locals = validator.names
    /\ raised_at \in {"parse", "visit"} => ~evaluated.called
    /\ raised_at = "parse" => ~Validated

C1_Witness ==
    /\ evaluated.called
    /\ result.ok
    /\ names = CustomNames
    /\ Len(visited.trace) > 3

\* the node kinds of the whitelist
AllowedKinds == {"Expression", "BinOp", "UnaryOp", "Call", "Name", "Constant"}

\* C2: a tree that contains, at any depth, a node of a kind other than
\* Expression, BinOp, UnaryOp, Call, Name and Constant is rejected; every
\* node of a certified tree is of one of these kinds.
C2_WhitelistClosure ==
    /\ Validated /\ (\E n \in Nodes(tree) : n.kind \notin AllowedKinds) => Rejected
    /\ Validated /\ visited.ok => \A n \in Nodes(tree) : n.kind \in AllowedKinds

C2_Witness ==
    /\ Rejected
    /\ tree.body.kind = "Call"
    /\ Len(tree.body.args) = 1
    /\ tree.body.args[1].kind = "UnaryOp"
    /\ tree.body.args[1].operand.kind = "Lambda"
    /\ visited.error = ValueError("Node type {} not allowed", "Lambda")

\* an operation whose operator is outside the two closed sets
ArithmeticOperators == {"Add", "Sub", "Mult", "Div", "Mod", "Pow", "FloorDiv"}
SignOperators == {"UAdd", "USub"}
BadOperator(n) ==
    \/ n.kind = "BinOp" /\ n.op \notin ArithmeticOperators
    \/ n.kind = "UnaryOp" /\ n.op \notin SignOperators

\* C3: in a certified tree every BinOp has one of the seven arithmetic
\* operators and every UnaryOp has UAdd or USub; any other operator,
\* wherever it occurs, makes validation reject the tree.
C3_OperatorClosure ==
    /\ Validated /\ (\E n \in Nodes(tree) : BadOperator(n)) => Rejected
    /\ Validated /\ visited.ok => \A n \in Nodes(tree) : ~BadOperator(n)

C3_Witness ==
    /\ Rejected
    /\ tree.body.kind = "UnaryOp"
    /\ tree.body.operand.kind = "BinOp"
    /\ tree.body.operand.op = "BitXor"
    /\ visited.error = ValueError("Operator {} not allowed", "BitXor")
\* the node whose visit raised: the last one visit was called on
Offender == visited.trace[Len(visited.trace)]

\* the identifiers of the name references of a tree, callees included
Identifiers(t) == {n.id : n \in {m \in Nodes(t) : m.kind = "Name"}}

\* C4: every identifier of a tree certified against a table, as a name
\* reference or as the callee of a call, is a key of that table; a tree that
\* uses an identifier absent from the table is rejected, and when validation
\* stops at that use the reason is "Name '<id>' is not allowed" for a name
\* reference and "Function '<id>' is not allowed" for a callee.
C4_IdentifierClosure ==
    /\ Validated /\ visited.ok => Identifiers(tree) \subseteq DOMAIN names
    /\ Validated /\ ~(Identifiers(tree) \subseteq DOMAIN names) => Rejected
    /\ Validated /\ ~visited.ok /\ Offender.kind = "Name" /\ Offender.id \notin DOMAIN names =>
         visited.error = ValueError("Name '{}' is not allowed", Offender.id)
    /\ ( /\ Validated /\ ~visited.ok
         /\ Offender.kind = "Call"
         /\ Offender.func.kind = "Name"
         /\ Offender.func.id \notin DOMAIN names )
       => visited.error = ValueError("Function '{}' is not allowed", Offender.func.id)

C4_Witness ==
    /\ Rejected
    /\ names = build_safe_names
    /\ tree.body.kind = "BinOp"
    /\ tree.body.right = Call(Name("f"), <<Int1>>, <<>>)
    /\ visited.error = ValueError("Function '{}' is not allowed", "f")

\* a call of the shape validation asks for
GoodCall(n) ==
    /\ n.func.kind = "Name"
    /\ n.keywords = <<>>
    /\ \A i \in DOMAIN n.args : visit(SafeEvaluator(names), n.args[i]).ok

\* C5: in a certified tree every call has a bare name as its callee, no
\* keyword argument, and positional arguments that are themselves
\* certified; a call with a keyword argument is rejected even when its
\* callee is a name of the table.
C5_CallShape ==
    /\ Validated /\ visited.ok => \A n \in Nodes(tree) : n.kind = "Call" => GoodCall(n)
    /\ Validated /\ (\E n \in Nodes(tree) : n.kind = "Call" /\ ~GoodCall(n)) => Rejected

C5_Witness ==
    /\ Rejected
    /\ names = build_safe_names
    /\ tree.body = Call(Name("round"), <<Int1>>, <<keyword("ndigits", Int2)>>)
    /\ visited.error = ValueError("Keyword arguments are not allowed", "")

\* a literal that is not an int, a float or a complex
OtherLiteral(n) ==
    \/ n.kind = "Constant" /\ n.type \notin {"int", "float", "complex"}
    \/ n.kind \in {"List", "Tuple", "Set", "Dict"}

\* C6: validation accepts a literal only if its value is an int, a float or
\* a complex; a str, bool, None, bytes, ellipsis or collection literal makes
\* validation reject the tree.
C6_LiteralKinds ==
    /\ Validated /\ visited.ok => \A n \in Nodes(tree) : ~OtherLiteral(n)
    /\ Validated /\ (\E n \in Nodes(tree) : OtherLiteral(n)) => Rejected

\* C7: when main is given -e/--expr, whatever the string, the expression is
\* passed to safe_eval exactly once, main returns 0 if safe_eval returned
\* and 2 if it raised, and the REPL is not entered.
C7_CliOutcome ==
    args # NoStr =>
      /\ ~repl_entered
      /\ calls <= 1
      /\ pc = "exit" =>
           /\ calls = 1
           /\ expression = args
           /\ status = IF result.ok THEN 0 ELSE 2

\* C8: the outcome of safe_eval(e, names) is the same whatever calls,
\* returning or raising, were made on the table before: a call with the
\* expression of an earlier call ends as that call did.
C8_Stateless ==
    (pc = "safe_eval_return" /\ first.set /\ expression = first.expression)
      => result = first.result

C8_Witness ==
    /\ pc = "safe_eval_return"
    /\ calls = 3
    /\ first.set
    /\ first.result.ok
    /\ expression = first.expression
    /\ result = first.result

\* the nodes validation visits when nothing is rejected: depth first, a
\* node before its children, operands and arguments left to right
RECURSIVE PreOrder(_)
RECURSIVE PreOrderAll(_, _)
PreOrderAll(nodes, i) ==
    IF i > Len(nodes) THEN <<>> ELSE PreOrder(nodes[i]) \o PreOrderAll(nodes, i + 1)
PreOrder(node) ==
    <<node>> \o
      CASE node.kind = "Expression" -> PreOrder(node.body)
        [] node.kind = "BinOp" -> PreOrder(node.left) \o PreOrder(node.right)
        [] node.kind = "UnaryOp" -> PreOrder(node.operand)
        [] node.kind = "Call" -> PreOrderAll(node.args, 1)
        [] OTHER -> <<>>

\* the reason a node's own checks give, NoError if they pass: the operator
\* of an operation, the callee and the keywords of a call, and for any
\* other node what validation says of the node
OwnCheck(node) ==
    CASE node.kind = "Expression" -> NoError
      [] node.kind = "BinOp" ->
            IF node.op \in ArithmeticOperators THEN NoError
            ELSE ValueError("Operator {} not allowed", node.op)
      [] node.kind = "UnaryOp" ->
            IF node.op \in SignOperators THEN NoError
            ELSE ValueError("Unary operator {} not allowed", node.op)
      [] node.kind = "Call" ->
            IF node.func.kind # "Name"
            THEN ValueError("Only direct function calls are allowed", "")
            ELSE IF node.func.id \notin DOMAIN names
            THEN ValueError("Function '{}' is not allowed", node.func.id)
            ELSE IF node.keywords # <<>>
            THEN ValueError("Keyword arguments are not allowed", "")
            ELSE NoError
      [] OTHER -> visit(SafeEvaluator(names), node).error

\* the positions of the violations of the tree, in visiting order
Violations == {i \in DOMAIN PreOrder(tree) : OwnCheck(PreOrder(tree)[i]) # NoError}
FirstViolation == CHOOSE i \in Violations : \A j \in Violations : i <= j

\* C9: validation visits the nodes depth first, a node's own checks before
\* its children, operands and arguments left to right; it stops at the
\* first violation in that order, reports the reason of that violation and
\* visits no node after it.
C9_FirstViolationOrder ==
    Validated =>
      IF Violations = {}
      THEN visited.ok /\ visited.trace = PreOrder(tree)
      ELSE /\ ~visited.ok
           /\ visited.trace = SubSeq(PreOrder(tree), 1, FirstViolation)
           /\ visited.error = OwnCheck(PreOrder(tree)[FirstViolation])

C9_Witness ==
    /\ Rejected
    /\ Cardinality(Violations) >= 2
    /\ tree.body.kind = "Call"
    /\ FirstViolation >= 3
    /\ Len(visited.trace) < Len(PreOrder(tree))

\* C10: a call of safe_eval, whether it returns a value or raises at the
\* parse, validation or evaluation stage, leaves the name table as it was:
\* the same keys bound to the same values, after any number of calls on the
\* table build_safe_names built.
C10_NameTableFrame ==
    pc # "main" => names = names0 /\ names = build_safe_names

C10_Witness ==
    /\ pc = "safe_eval_return"
    /\ calls = 3
    /\ raised_at = "eval"
    /\ first.set
    /\ first.result.ok
    /\ names = names0

====
